---- MODULE Spec2Model ----
(***************************************************************************)
(* ant-farmer: a CREATE TABLE pretty-printer (src/src/lib.rs).             *)
(*                                                                         *)
(* A Rust String is modelled as the sequence of its characters, each       *)
(* character a one-element TLA+ string.  String::len() counts UTF-8 bytes  *)
(* while the width of a format! placeholder counts characters, so the      *)
(* model keeps both measures apart: EAcute stands for a two-byte           *)
(* character.  The parser (sqlparser) is an external crate: its result,    *)
(* a ParserError or a Vec<Statement>, is the input of the model.           *)
(***************************************************************************)
EXTENDS Integers, Sequences, FiniteSets, TLC

(* ------------------------------ bounds -------------------------------- *)

MaxCols == 2

MaxCons == 2

MaxOpts == 3

MaxStmts == 2

(* ------------------------------ strings ------------------------------- *)

EAcute == "e'"

Whitespace == {" ", "\n", "\t"}

\* UTF-8 width of one character.
CharBytes(c) == IF c = EAcute THEN 2 ELSE 1

\* str::len(): the length in bytes (a character takes one byte or two).
len(s) == Len(s) + Cardinality({i \in 1..Len(s) : CharBytes(s[i]) = 2})

\* The fill of a format! placeholder.
Spaces(n) == [i \in 1..n |-> " "]

\* {:<w$}: left-justified, filled up to w characters.
PadLeftJustified(s, w) == IF Len(s) >= w THEN s ELSE s \o Spaces(w - Len(s))

\* {:>w$}: right-justified, filled up to w characters.
PadRightJustified(s, w) == IF Len(s) >= w THEN s ELSE Spaces(w - Len(s)) \o s

\* [String]::join(sep)
RECURSIVE join(_, _)
join(items, sep) ==
  IF items = <<>> THEN <<>>
  ELSE IF Len(items) = 1 THEN items[1]
  ELSE items[1] \o sep \o join(Tail(items), sep)

\* str::trim_start()
trim_start(s) ==
  LET kept == {i \in 1..Len(s) : s[i] \notin Whitespace}
  IN IF kept = {} THEN <<>>
     ELSE SubSeq(s, CHOOSE i \in kept : \A j \in kept : i <= j, Len(s))

\* str::trim_end()
trim_end(s) ==
  LET kept == {i \in 1..Len(s) : s[i] \notin Whitespace}
  IN IF kept = {} THEN <<>>
     ELSE SubSeq(s, 1, CHOOSE i \in kept : \A j \in kept : i >= j)

no_trim(s) == s

\* str::trim(): leading and trailing whitespace removed.
trim(s) == trim_start(trim_end(s))

push_str_overwrite(out, s) == s

\* String += &str
push_str(out, s) == out \o s

(* ------------------------- Option and Display -------------------------- *)

None == <<>>

Some(x) == <<x>>

\* Display for Ident: the value, between its quote characters when quoted.
IdentToString(ident) ==
  IF ident.quote_style = None THEN ident.value
  ELSE ident.quote_style \o ident.value \o ident.quote_style

\* Display for ObjectName: the identifiers joined by '.'.
ObjectNameToString(name) ==
  join([i \in 1..Len(name) |-> IdentToString(name[i])], <<".">>)

\* Display for DataType.
DataTypeToString(data_type) ==
  CASE data_type = "Int" -> <<"I", "N", "T">>
    [] data_type = "Text" -> <<"T", "E", "X", "T">>

\* Display for Expr.
ExprToString(expr) ==
  CASE expr = "Zero" -> <<"0">>
    [] expr = "Now" -> <<"N", "O", "W", "(", ")">>
    [] expr = "Positive" -> <<"a", " ", ">", " ", "0">>

\* Display for ReferentialAction.
ActionToString(action) ==
  CASE action = "Cascade" -> <<"C", "A", "S", "C", "A", "D", "E">>
    [] action = "SetNull" -> <<"S", "E", "T", " ", "N", "U", "L", "L">>

\* Display for ColumnOption.
ColumnOptionToString(option) ==
  CASE option.kind = "Null" -> <<"N", "U", "L", "L">>
    [] option.kind = "NotNull" -> <<"N", "O", "T", " ", "N", "U", "L", "L">>
    [] option.kind = "Default" ->
         <<"D", "E", "F", "A", "U", "L", "T", " ">> \o ExprToString(option.expr)
    [] option.kind = "Unique" ->
         IF option.is_primary
         THEN <<"P", "R", "I", "M", "A", "R", "Y", " ", "K", "E", "Y">>
         ELSE <<"U", "N", "I", "Q", "U", "E">>

(* ------------------------------ segments ------------------------------ *)

unwrap_or_default(opt) ==
  [panic |-> FALSE,
   value |-> IF opt = None THEN [value |-> <<>>, quote_style |-> None] ELSE opt[1]]

\* Option::unwrap(): the value of Some, a panic on None.
unwrap(opt) ==
  [panic |-> opt = None,
   value |-> IF opt = None THEN [value |-> <<>>, quote_style |-> None] ELSE opt[1]]

\* columns.iter().map(|column| column.to_string()).collect().join(", ")
JoinIdents(idents) ==
  join([i \in 1..Len(idents) |-> IdentToString(idents[i])], <<",", " ">>)

ConstraintKeyword == <<"C", "O", "N", "S", "T", "R", "A", "I", "N", "T", " ">>

\* impl AlignedDisplay for TableConstraint: the eight segments, or the panic
\* of name.clone().unwrap().
TableConstraintSegments(constraint) ==
  LET name == unwrap(constraint.name)
      head == ConstraintKeyword \o IdentToString(name.value)
  IN [panic |-> name.panic,
      value |->
        CASE constraint.kind = "Unique" ->
               << head,
                  IF constraint.is_primary
                  THEN <<"P", "R", "I", "M", "A", "R", "Y", " ", "K", "E", "Y">>
                  ELSE <<"U", "N", "I", "Q", "U", "E">>,
                  JoinIdents(constraint.columns),
                  <<>>, <<>>, <<>>, <<>>, <<>> >>
          [] constraint.kind = "ForeignKey" ->
               << head,
                  <<"F", "O", "R", "E", "I", "G", "N", " ", "K", "E", "Y">>,
                  JoinIdents(constraint.columns),
                  <<"R", "E", "F", "E", "R", "E", "N", "C", "E", "S">>,
                  ObjectNameToString(constraint.foreign_table),
                  JoinIdents(constraint.referred_columns),
                  IF constraint.on_delete # None
                  THEN <<"O", "N", " ", "D", "E", "L", "E", "T", "E", " ">>
                         \o ActionToString(constraint.on_delete[1])
                  ELSE <<>>,
                  IF constraint.on_update # None
                  THEN <<"O", "N", " ", "U", "P", "D", "A", "T", "E", " ">>
                         \o ActionToString(constraint.on_update[1])
                  ELSE <<>> >>
          [] constraint.kind = "Check" ->
               << head,
                  <<"C", "H", "E", "C", "K", " ", "(">>
                    \o ExprToString(constraint.expr) \o <<")">>,
                  <<>>, <<>>, <<>>, <<>>, <<>>, <<>> >>]

RECURSIVE find_last(_, _)
find_last(options, kinds) ==
  IF options = <<>> THEN None
  ELSE IF options[Len(options)].kind \in kinds THEN Some(options[Len(options)])
  ELSE find_last(SubSeq(options, 1, Len(options) - 1), kinds)

\* Iterator::find(): the first option whose kind is one of kinds.
RECURSIVE find(_, _)
find(options, kinds) ==
  IF options = <<>> THEN None
  ELSE IF Head(options).kind \in kinds THEN Some(Head(options))
  ELSE find(Tail(options), kinds)

\* impl AlignedDisplay for ColumnDef: [name, data_type, nullable, default].
ColumnDefSegments(column) ==
  LET nullable == find(column.options, {"Null", "NotNull"})
      default == find(column.options, {"Default"})
  IN << IdentToString(column.name),
        DataTypeToString(column.data_type),
        IF nullable # None THEN ColumnOptionToString(nullable[1]) ELSE <<>>,
        IF default # None THEN ColumnOptionToString(default[1]) ELSE <<>> >>

(* ------------------------------- widths ------------------------------- *)

max(a, b) == IF a >= b THEN a ELSE b

\* rows.iter().fold(acc, |acc, row| (acc.0.max(row[0].len()), ...))
RECURSIVE fold_widths(_, _)
fold_widths(acc, rows) ==
  IF rows = <<>> THEN acc
  ELSE fold_widths([i \in DOMAIN acc |-> max(acc[i], len(Head(rows)[i]))], Tail(rows))

\* let column_widths = columns.iter().fold((0, 0, 0, 0), ...)
column_widths(columns) == fold_widths(<<0, 0, 0, 0>>, columns)

\* let constraint_widths = constraints.iter().fold((0, 0, 0, 0, 0, 0, 0, 0), ...)
constraint_widths(constraints) == fold_widths(<<0, 0, 0, 0, 0, 0, 0, 0>>, constraints)

(* -------------------------------- rows -------------------------------- *)

ColumnRowAllLeft(column, widths) ==
  PadLeftJustified(column[1], widths[1]) \o <<" ">>
    \o PadLeftJustified(column[2], widths[2]) \o <<" ">>
    \o PadLeftJustified(column[3], widths[3]) \o <<" ">>
    \o PadLeftJustified(column[4], widths[4])

\* format!("{:<name_width$} {:<type_width$} {:>null_width$} {:<default_width$}", ...)
ColumnRow(column, widths) ==
  PadLeftJustified(column[1], widths[1]) \o <<" ">>
    \o PadLeftJustified(column[2], widths[2]) \o <<" ">>
    \o PadRightJustified(column[3], widths[3]) \o <<" ">>
    \o PadLeftJustified(column[4], widths[4])

Parenthesised(s) == <<"(">> \o s \o <<")">>

ConstraintLineNarrowLists(constraint, widths) ==
  PadLeftJustified(constraint[1], widths[1]) \o <<" ">>
    \o PadLeftJustified(constraint[2], widths[2]) \o <<" ">>
    \o PadLeftJustified(Parenthesised(constraint[3]), widths[3]) \o <<" ">>
    \o PadLeftJustified(constraint[4], widths[4]) \o <<" ">>
    \o PadLeftJustified(constraint[5], widths[5]) \o <<" ">>
    \o PadLeftJustified(IF len(constraint[6]) > 0 THEN Parenthesised(constraint[6]) ELSE <<>>,
                        widths[6]) \o <<" ">>
    \o PadLeftJustified(constraint[7], widths[7]) \o <<" ">>
    \o PadLeftJustified(constraint[8], widths[8])

\* format!("{:<name_width$} {:<type_width$} {:<columns_width$} {:<three$} {:<four$}
\*          {:<five$} {:<six$} {:<seven$}", ...), before .trim()
ConstraintLine(constraint, widths) ==
  PadLeftJustified(constraint[1], widths[1]) \o <<" ">>
    \o PadLeftJustified(constraint[2], widths[2]) \o <<" ">>
    \o PadLeftJustified(Parenthesised(constraint[3]), widths[3] + 2) \o <<" ">>
    \o PadLeftJustified(constraint[4], widths[4]) \o <<" ">>
    \o PadLeftJustified(constraint[5], widths[5]) \o <<" ">>
    \o PadLeftJustified(IF len(constraint[6]) > 0 THEN Parenthesised(constraint[6]) ELSE <<>>,
                        widths[6] + 2) \o <<" ">>
    \o PadLeftJustified(constraint[7], widths[7]) \o <<" ">>
    \o PadLeftJustified(constraint[8], widths[8])

\* The row as collected: the formatted line, trimmed.
ConstraintRow(constraint, widths) == trim(ConstraintLine(constraint, widths))

RowSeparator == <<"\n", " ", " ", ",", " ">>

(* ------------------------ one CREATE TABLE arm ------------------------ *)

NoLocals ==
  [column_segments |-> <<>>, constraint_segments |-> <<>>,
   column_widths |-> <<0, 0, 0, 0>>, constraint_widths |-> <<0, 0, 0, 0, 0, 0, 0, 0>>,
   column_rows |-> <<>>, constraint_rows |-> <<>>,
   columns |-> <<>>, constraints |-> <<>>]

CreateTableHeader(name) ==
  <<"C", "R", "E", "A", "T", "E", " ", "T", "A", "B", "L", "E", " ">>
    \o ObjectNameToString(name) \o <<" ", "(", "\n">>

ConstraintsBlockAlways(constraints) == TRUE

\* if constraints.len() > 0, on the joined constraints string
ConstraintsBlockPresent(constraints) == len(constraints) > 0

\* The locals of the Statement::CreateTable arm once both blocks are joined.
CreateTableLocals(statement) ==
  LET column_segments ==
        [i \in 1..Len(statement.columns) |-> ColumnDefSegments(statement.columns[i])]
      constraint_segments ==
        [i \in 1..Len(statement.constraints) |->
           TableConstraintSegments(statement.constraints[i]).value]
      cw == column_widths(column_segments)
      kw == constraint_widths(constraint_segments)
      column_rows ==
        [i \in 1..Len(column_segments) |-> ColumnRow(column_segments[i], cw)]
      constraint_rows ==
        [i \in 1..Len(constraint_segments) |-> ConstraintRow(constraint_segments[i], kw)]
  IN [column_segments |-> column_segments, constraint_segments |-> constraint_segments,
      column_widths |-> cw, constraint_widths |-> kw,
      column_rows |-> column_rows, constraint_rows |-> constraint_rows,
      columns |-> join(column_rows, RowSeparator),
      constraints |-> join(constraint_rows, RowSeparator)]

\* Some constraint.segments() of the statement panics.
SegmentsPanic(statement) ==
  \E i \in 1..Len(statement.constraints) :
    TableConstraintSegments(statement.constraints[i]).panic

\* The Statement::CreateTable arm: output after the arm, and its locals.
CreateTableArm(statement, out) ==
  LET locals == CreateTableLocals(statement)
      header == push_str(out, CreateTableHeader(statement.name))
      body == push_str(header, <<" ", " ", " ", " ">> \o locals.columns \o <<"\n">>)
      block == IF ConstraintsBlockPresent(locals.constraints)
               THEN push_str(body, <<" ", " ", ",", " ">> \o locals.constraints \o <<"\n">>)
               ELSE body
  IN [locals |-> locals, output |-> push_str(block, <<")", "\n", ";">>)]

OtherArmSkip(out) == [panic |-> FALSE, output |-> out]

\* The `_ => todo!()` arm.
OtherArm(out) == [panic |-> TRUE, output |-> out]

(* ------------------------------- inputs ------------------------------- *)

SeqUpTo(S, n) == UNION {[1..k -> S] : k \in 0..n}

Unquoted(value) == [value |-> value, quote_style |-> None]

Quoted(value) == [value |-> value, quote_style |-> Some("\"")]

IdentA == Unquoted(<<"a">>)

IdentB == Quoted(<<"b", EAcute>>)

IdentId == Unquoted(<<"i", "d">>)

TableT == <<Unquoted(<<"t">>)>>

TableUU == <<Unquoted(<<"d", "b">>), Unquoted(<<"u">>)>>

OptNull == [kind |-> "Null"]

OptNotNull == [kind |-> "NotNull"]

OptDefault(expr) == [kind |-> "Default", expr |-> expr]

OptPrimaryKey == [kind |-> "Unique", is_primary |-> TRUE]

ColumnOptions == {OptNull, OptNotNull, OptDefault("Zero"), OptDefault("Now"), OptPrimaryKey}

ColumnDef(name, data_type, options) ==
  [name |-> name, data_type |-> data_type, options |-> options]

\* Columns that differ in the length of every segment.
LayoutColumns ==
  {ColumnDef(n, t, o) :
     n \in {IdentA, IdentB}, t \in {"Int", "Text"},
     o \in {<<>>, <<OptNull>>, <<OptNotNull, OptDefault("Now")>>}}

\* One column with every sequence of options.
OptionColumns == {ColumnDef(IdentA, "Int", o) : o \in SeqUpTo(ColumnOptions, MaxOpts)}

Unique(name, columns, is_primary) ==
  [kind |-> "Unique", name |-> name, columns |-> columns, is_primary |-> is_primary]

ForeignKey(name, referred_columns, on_delete, on_update) ==
  [kind |-> "ForeignKey", name |-> name, columns |-> <<IdentA>>, foreign_table |-> TableUU,
   referred_columns |-> referred_columns, on_delete |-> on_delete, on_update |-> on_update]

Check(name) == [kind |-> "Check", name |-> name, expr |-> "Positive"]

NameC == Some(Unquoted(<<"c">>))

NameDD == Some(Quoted(<<"d", "d">>))

NamedConstraints ==
  {Unique(n, <<IdentA>>, TRUE) : n \in {NameC, NameDD}}
    \cup {Unique(n, <<IdentA, IdentB>>, FALSE) : n \in {NameC, NameDD}}
    \cup {ForeignKey(NameDD, r, d, u) :
            r \in {<<>>, <<IdentId>>}, d \in {None, Some("Cascade")},
            u \in {None, Some("SetNull")}}
    \cup {Check(n) : n \in {NameC, NameDD}}

UnnamedConstraints ==
  {Unique(None, <<IdentA>>, FALSE), ForeignKey(None, <<IdentId>>, None, None), Check(None)}

CreateTable(name, columns, constraints) ==
  [kind |-> "CreateTable", name |-> name, columns |-> columns, constraints |-> constraints]

Delete == [kind |-> "Delete"]

\* One table, its columns varying.
ColumnASTs == {<<CreateTable(TableT, c, <<>>)>> : c \in SeqUpTo(LayoutColumns, MaxCols)}

\* One table, its constraints varying.
ConstraintASTs ==
  {<<CreateTable(TableT, <<ColumnDef(IdentA, "Int", <<>>)>>, k)>> :
     k \in SeqUpTo(NamedConstraints, MaxCons)}

\* One table of one column, its options varying.
OptionASTs == {<<CreateTable(TableT, <<c>>, <<>>)>> : c \in OptionColumns}

SmallStatements ==
  {CreateTable(n, <<c>>, k) :
     n \in {TableT, TableUU},
     c \in {ColumnDef(IdentA, "Int", <<>>), ColumnDef(IdentB, "Text", <<OptNotNull>>)},
     k \in {<<>>, <<Unique(NameC, <<IdentA>>, TRUE)>>}}
    \cup {CreateTable(TableT, <<ColumnDef(IdentA, "Int", <<>>)>>, <<k>>) :
            k \in UnnamedConstraints}
    \cup {CreateTable(TableT, <<ColumnDef(IdentA, "Int", <<>>)>>,
                      <<Check(NameC), Unique(None, <<IdentA>>, TRUE)>>)}
    \cup {Delete}

\* Several statements.
MultiASTs == SeqUpTo(SmallStatements, MaxStmts)

ASTs == ColumnASTs \cup ConstraintASTs \cup OptionASTs \cup MultiASTs

\* Parser::parse_sql(): a ParserError, or the statements.
Inputs == {[ok |-> FALSE, ast |-> <<>>]} \cup {[ok |-> TRUE, ast |-> a] : a \in ASTs}

(* --------------------------- AntFarmer::mierenneuke -------------------- *)

VARIABLES pc, input, ast, idx, output, locals, result

vars == <<pc, input, ast, idx, output, locals, result>>

NoResult == [kind |-> "None", value |-> <<>>]

Init ==
  /\ pc = "parse"
  /\ input \in Inputs
  /\ ast = <<>>
  /\ idx = 1
  /\ output = <<>>
  /\ locals = NoLocals
  /\ result = NoResult

\* let ast = Parser::parse_sql(&self.dialect, sql)?;  -- the Err branch of `?`
ParseErr ==
  /\ pc = "parse"
  /\ ~input.ok
  /\ pc' = "done"
  /\ result' = [kind |-> "Err", value |-> <<>>]
  /\ UNCHANGED <<input, ast, idx, output, locals>>

\* let ast = Parser::parse_sql(&self.dialect, sql)?; let mut output = String::new();
ParseOk ==
  /\ pc = "parse"
  /\ input.ok
  /\ ast' = input.ast
  /\ output' = <<>>
  /\ idx' = 1
  /\ pc' = "loop"
  /\ UNCHANGED <<input, locals, result>>

\* One iteration of the loop on a Statement::CreateTable whose constraints are named.
StepCreateTable ==
  /\ pc = "loop"
  /\ idx <= Len(ast)
  /\ ast[idx].kind = "CreateTable"
  /\ ~SegmentsPanic(ast[idx])
  /\ LET arm == CreateTableArm(ast[idx], output)
     IN /\ output' = arm.output
        /\ locals' = arm.locals
  /\ idx' = idx + 1
  /\ UNCHANGED <<pc, input, ast, result>>

\* One iteration on a Statement::CreateTable one of whose constraints has no name:
\* the header is pushed, then constraint.segments() panics and the call unwinds.
StepCreateTablePanic ==
  /\ pc = "loop"
  /\ idx <= Len(ast)
  /\ ast[idx].kind = "CreateTable"
  /\ SegmentsPanic(ast[idx])
  /\ output' = push_str(output, CreateTableHeader(ast[idx].name))
  /\ result' = [kind |-> "Panic", value |-> <<>>]
  /\ pc' = "done"
  /\ UNCHANGED <<input, ast, idx, locals>>

\* One iteration on any other statement.
StepOther ==
  /\ pc = "loop"
  /\ idx <= Len(ast)
  /\ ast[idx].kind # "CreateTable"
  /\ LET arm == OtherArm(output)
     IN /\ output' = arm.output
        /\ IF arm.panic
           THEN /\ result' = [kind |-> "Panic", value |-> <<>>]
                /\ pc' = "done"
                /\ idx' = idx
           ELSE /\ idx' = idx + 1
                /\ UNCHANGED <<pc, result>>
  /\ UNCHANGED <<input, ast, locals>>

\* Ok(output)
Return ==
  /\ pc = "loop"
  /\ idx > Len(ast)
  /\ result' = [kind |-> "Ok", value |-> output]
  /\ pc' = "done"
  /\ UNCHANGED <<input, ast, idx, output, locals>>

Next ==
  \/ ParseErr
  \/ ParseOk
  \/ StepCreateTable
  \/ StepCreateTablePanic
  \/ StepOther
  \/ Return

Spec == Init /\ [][Next]_vars

(* ------------------------------ properties ---------------------------- *)

\* A CreateTable arm has just completed: locals and output are those of ast[idx - 1].
ArmDone == pc = "loop" /\ idx > 1

Last == ast[idx - 1]

SetMax(S) == CHOOSE x \in S : \A y \in S : y <= x

\* The greatest String::len() of segment p over the rows.
MaxLenAt(rows, p) == SetMax({len(rows[k][p]) : k \in 1..Len(rows)})

AllSpaces(s) == \A i \in 1..Len(s) : s[i] = " "

LeftJustified(field, seg) ==
  /\ Len(seg) <= Len(field)
  /\ SubSeq(field, 1, Len(seg)) = seg
  /\ AllSpaces(SubSeq(field, Len(seg) + 1, Len(field)))

RightJustified(field, seg) ==
  /\ Len(seg) <= Len(field)
  /\ SubSeq(field, Len(field) - Len(seg) + 1, Len(field)) = seg
  /\ AllSpaces(SubSeq(field, 1, Len(field) - Len(seg)))

\* C1: every column row is name, type, nullability and default, separated by single
\* spaces, each padded to exactly the greatest length (String::len) of that segment
\* over the statement's column rows; name, type and default are left-justified and
\* nullability right-justified, so every row of the statement is
\* width[0] + width[1] + width[2] + width[3] + 3 characters long.
C1_ColumnRowsPadded ==
  (ArmDone /\ Len(Last.columns) > 0) =>
    LET segs == locals.column_segments
        rows == locals.column_rows
        w == [p \in 1..4 |-> MaxLenAt(segs, p)]
    IN /\ Len(rows) = Len(Last.columns)
       /\ Len(segs) = Len(Last.columns)
       /\ \A k \in 1..Len(rows) :
            LET row == rows[k]
                s2 == w[1] + 1
                s3 == s2 + w[2] + 1
                s4 == s3 + w[3] + 1
            IN /\ Len(row) = w[1] + w[2] + w[3] + w[4] + 3
               /\ LeftJustified(SubSeq(row, 1, w[1]), segs[k][1])
               /\ row[s2] = " "
               /\ LeftJustified(SubSeq(row, s2 + 1, s2 + w[2]), segs[k][2])
               /\ row[s3] = " "
               /\ RightJustified(SubSeq(row, s3 + 1, s3 + w[3]), segs[k][3])
               /\ row[s4] = " "
               /\ LeftJustified(SubSeq(row, s4 + 1, s4 + w[4]), segs[k][4])

\* Two column rows, one NULL and one NOT NULL, whose names differ in length.
C1_Witness ==
  /\ ArmDone
  /\ \E j, k \in 1..Len(locals.column_rows) :
       /\ locals.column_segments[j][3] = <<"N", "U", "L", "L">>
       /\ locals.column_segments[k][3] = <<"N", "O", "T", " ", "N", "U", "L", "L">>
       /\ Len(locals.column_segments[j][1]) # Len(locals.column_segments[k][1])
       /\ locals.column_segments[j][4] # locals.column_segments[k][4]

ListPositions == {3, 6}

\* The width a constraint field occupies: the greatest length of its segment, and two
\* more for the two list positions.
FieldWidth(segs, p) == MaxLenAt(segs, p) + (IF p \in ListPositions THEN 2 ELSE 0)

RECURSIVE FieldOffset(_, _)
FieldOffset(segs, p) ==
  IF p = 1 THEN 0 ELSE FieldOffset(segs, p - 1) + FieldWidth(segs, p - 1) + 1

\* C2: the constraint rows of one statement lie under one width vector of eight
\* positions: in every row that has text at or after position p, field p starts at
\* the same offset, the sum of the widths before it and one space each, the two list
\* positions taking their greatest segment length plus 2.
C2_ConstraintRowsAligned ==
  (ArmDone /\ Len(Last.constraints) > 0) =>
    LET segs == locals.constraint_segments
        rows == locals.constraint_rows
    IN /\ Len(rows) = Len(Last.constraints)
       /\ \A k \in 1..Len(rows) : \A p \in 1..8 :
            (\E q \in p..8 : segs[k][q] # <<>>) =>
              LET text == IF p \in ListPositions /\ segs[k][p] # <<>>
                          THEN <<"(">> \o segs[k][p] \o <<")">>
                          ELSE segs[k][p]
                  off == FieldOffset(segs, p)
              IN /\ Len(rows[k]) >= off + Len(text)
                 /\ SubSeq(rows[k], off + 1, off + Len(text)) = text
                 /\ p > 1 => rows[k][off] = " "

\* A UNIQUE row and a FOREIGN KEY row whose names and column lists differ in length.
C2_Witness ==
  /\ ArmDone
  /\ \E j, k \in 1..Len(locals.constraint_rows) :
       /\ Last.constraints[j].kind = "Unique"
       /\ Last.constraints[k].kind = "ForeignKey"
       /\ Len(locals.constraint_segments[j][1]) # Len(locals.constraint_segments[k][1])
       /\ Len(locals.constraint_segments[j][3]) > Len(locals.constraint_segments[k][3])
       /\ locals.constraint_segments[k][6] # <<>>

HasEmptyParentheses(row) ==
  \E i \in 1..(Len(row) - 1) : row[i] = "(" /\ row[i + 1] = ")"

\* C3: in every constraint row the column list (position 2) and the referenced column
\* list (position 5) are parenthesised only when the segment is not empty: a row
\* whose list segment is empty carries no empty "()".
C3_ParenthesesOnlyWhenNonEmpty ==
  ArmDone =>
    \A k \in 1..Len(locals.constraint_rows) :
      (locals.constraint_segments[k][3] = <<>> \/ locals.constraint_segments[k][6] = <<>>)
        => ~HasEmptyParentheses(locals.constraint_rows[k])

\* The document of a statement, from the rows of its two blocks.
Document(statement, column_rows, constraint_rows) ==
  <<"C", "R", "E", "A", "T", "E", " ", "T", "A", "B", "L", "E", " ">>
    \o ObjectNameToString(statement.name) \o <<" ", "(", "\n">>
    \o <<" ", " ", " ", " ">> \o join(column_rows, RowSeparator) \o <<"\n">>
    \o (IF Len(statement.constraints) >= 1
        THEN <<" ", " ", ",", " ">> \o join(constraint_rows, RowSeparator) \o <<"\n">>
        ELSE <<>>)
    \o <<")", "\n", ";">>

IsSuffix(s, t) == Len(s) <= Len(t) /\ SubSeq(t, Len(t) - Len(s) + 1, Len(t)) = s

\* C4: the document of one statement is the header, four spaces, the column rows
\* joined by "\n  , " and a newline, then the constraints block if and only if the
\* statement has a constraint, then ")\n;".
C4_Document ==
  /\ ArmDone =>
       LET doc == Document(Last, locals.column_rows, locals.constraint_rows)
       IN /\ IsSuffix(doc, output)
          /\ idx = 2 => output = doc
  /\ (pc = "done" /\ result.kind = "Ok" /\ Len(ast) = 1) =>
       result.value = Document(ast[1], locals.column_rows, locals.constraint_rows)

\* One statement returned, once with constraints.
C4_Witness ==
  /\ pc = "done"
  /\ result.kind = "Ok"
  /\ Len(ast) = 1
  /\ Len(ast[1].constraints) >= 1
  /\ Len(ast[1].columns) >= 1

SupportedOptions == {"Null", "NotNull", "Default"}

HasUnsupportedOption(statements) ==
  \E i \in 1..Len(statements) :
    /\ statements[i].kind = "CreateTable"
    /\ \E k \in 1..Len(statements[i].columns) :
         \E o \in 1..Len(statements[i].columns[k].options) :
           statements[i].columns[k].options[o].kind \notin SupportedOptions

\* C5: a column option other than NULL, NOT NULL or DEFAULT makes the call fail: no
\* rendering is returned from which the option was dropped.
C5_UnsupportedOptionFails ==
  (input.ok /\ HasUnsupportedOption(input.ast)) => result.kind # "Ok"

HasOtherStatement(statements) ==
  \E i \in 1..Len(statements) : statements[i].kind # "CreateTable"

\* C6: when a statement of the input is not a CREATE TABLE the call fails and returns
\* nothing, wherever the statement stands: what was rendered before it is not
\* returned.
C6_UnsupportedStatementFails ==
  (input.ok /\ HasOtherStatement(input.ast)) =>
    /\ result.kind \in {"None", "Panic"}
    /\ result.value = <<>>
    /\ pc = "done" => result.kind = "Panic"

\* The call has failed on a statement that follows a rendered CREATE TABLE.
C6_Witness ==
  /\ pc = "done"
  /\ result.kind = "Panic"
  /\ idx > 1
  /\ ast[idx].kind # "CreateTable"
  /\ output # <<>>

\* The output of formatting one statement alone: its rows and widths are its own.
Alone(statement) ==
  LET own == CreateTableLocals(statement)
  IN Document(statement, own.column_rows, own.constraint_rows)

RECURSIVE Concatenation(_)
Concatenation(statements) ==
  IF statements = <<>> THEN <<>>
  ELSE Alone(Head(statements)) \o Concatenation(Tail(statements))

\* C7: the output for several CREATE TABLE statements is the concatenation, in input
\* order, of the outputs of each statement alone, and empty for no statement.
C7_Concatenation ==
  (pc = "done" /\ result.kind = "Ok") => result.value = Concatenation(ast)

\* Two different statements returned together.
C7_Witness ==
  /\ pc = "done"
  /\ result.kind = "Ok"
  /\ Len(ast) >= 2
  /\ ast[1].columns # ast[2].columns
  /\ ast[1].constraints # ast[2].constraints

HasUnnamedConstraint(statements) ==
  \E i \in 1..Len(statements) :
    /\ statements[i].kind = "CreateTable"
    /\ \E k \in 1..Len(statements[i].constraints) :
         statements[i].constraints[k].name = None

\* C8: when a table constraint has no name the call fails and returns nothing: no
\* rendering with an empty name after CONSTRAINT is returned.
C8_UnnamedConstraintFails ==
  (input.ok /\ HasUnnamedConstraint(input.ast)) =>
    /\ result.kind \in {"None", "Panic"}
    /\ result.value = <<>>
    /\ pc = "done" => result.kind = "Panic"

\* The call has failed on an unnamed constraint that follows a named one.
C8_Witness ==
  /\ pc = "done"
  /\ result.kind = "Panic"
  /\ ast[idx].kind = "CreateTable"
  /\ Len(ast[idx].constraints) = 2
  /\ ast[idx].constraints[1].name # None
  /\ ast[idx].constraints[2].name = None

FirstMatch(options, kinds, segment) ==
  IF \A i \in 1..Len(options) : options[i].kind \notin kinds
  THEN segment = <<>>
  ELSE \E i \in 1..Len(options) :
         /\ options[i].kind \in kinds
         /\ \A j \in 1..(i - 1) : options[j].kind \notin kinds
         /\ segment = ColumnOptionToString(options[i])

\* C9: the nullability segment renders the first NULL or NOT NULL option, the default
\* segment the first DEFAULT option, each empty when there is none, whatever the
\* order of the options; a column has four segments.
C9_FirstOptionWins ==
  ArmDone =>
    \A k \in 1..Len(Last.columns) :
      LET options == Last.columns[k].options
          segment == locals.column_segments[k]
      IN /\ Len(segment) = 4
         /\ segment[1] = IdentToString(Last.columns[k].name)
         /\ FirstMatch(options, {"Null", "NotNull"}, segment[3])
         /\ FirstMatch(options, {"Default"}, segment[4])

\* A column that carries NOT NULL and then NULL.
C9_Witness ==
  /\ ArmDone
  /\ \E k \in 1..Len(Last.columns) :
       /\ Last.columns[k].options = <<OptNotNull, OptNull>>
       /\ locals.column_segments[k][3] = <<"N", "O", "T", " ", "N", "U", "L", "L">>

\* C10: a constraint row has no leading and no trailing whitespace: it is the padded
\* line of eight fields without its trailing spaces, its interior padding kept.
C10_ConstraintRowsTrimmed ==
  ArmDone =>
    \A k \in 1..Len(locals.constraint_rows) :
      LET row == locals.constraint_rows[k]
          line == ConstraintLine(locals.constraint_segments[k], locals.constraint_widths)
      IN /\ row # <<>>
         /\ row[1] \notin Whitespace
         /\ row[Len(row)] \notin Whitespace
         /\ Len(row) <= Len(line)
         /\ SubSeq(line, 1, Len(row)) = row
         /\ AllSpaces(SubSeq(line, Len(row) + 1, Len(line)))

\* A UNIQUE row under widths set by a FOREIGN KEY row: the padded line is longer.
C10_Witness ==
  /\ ArmDone
  /\ \E j, k \in 1..Len(locals.constraint_rows) :
       /\ Last.constraints[j].kind = "Unique"
       /\ Last.constraints[k].kind = "ForeignKey"
       /\ Last.constraints[k].on_update # None
       /\ Len(locals.constraint_rows[j]) < Len(locals.constraint_rows[k])
       /\ Len(locals.constraint_rows[j]) <
            Len(ConstraintLine(locals.constraint_segments[j], locals.constraint_widths))

====
